---- MODULE Spec2Model ----
(***************************************************************************)
(* Liveness challenge engine (src/engine/LivenessEngine.js) behind the     *)
(* event facade (src/sdk/LivenessSDK.js).                                  *)
(*                                                                         *)
(* The engine is single threaded: every action below is one task of the    *)
(* host's event loop (a caller's call, an animation-frame tick, a landmark *)
(* result callback, a 300 ms settle timer, the completion of the embedding *)
(* step), run to completion.  Neither stop() nor start() cancels a settle  *)
(* timer or an embedding step already under way, so both stay pending      *)
(* across sessions.  Times are in milliseconds.  EAR and yaw values are    *)
(* scaled by 100 (0.25 is 25) so that the thresholds stay integers.        *)
(*                                                                         *)
(* Specifications:                                                         *)
(*   Spec            the engine behind the facade, a stream being attached *)
(*   SpecRegistry    on / off / _emit of the facade                        *)
(*   SpecCamera      start and stop with camera acquisition                *)
(*   SpecDescriptor  the normalization of the raw embedding                *)
(*   SpecCosine      calculateCosineSimilarity                             *)
(*   SpecHeadTurn    calculateHeadTurnV2 in exact arithmetic               *)
(*   SpecRounded     calculateHeadTurnV2 with floating-point rounding      *)
(*   SpecFace        sessions with the time a face was last seen           *)
(*   SpecLive        the engine under fair scheduling                      *)
(*   SpecScheduler   the frames #detectionLoop sends, animation frames a   *)
(*                   few milliseconds apart                                *)
(*   SpecSwitch      the pass tests of #processChallenge under other       *)
(*                   thresholds than the defaults                          *)
(***************************************************************************)
EXTENDS Integers, Sequences, FiniteSets, TLC

\* ---------------------------------------------------------------- bounds
MaxStarts == 2        \* sessions begun by start() in one behaviour
MaxTime == 2200       \* the clock stops advancing here
Epoch == 1000         \* Date.now() when the SDK is constructed

\* ------------------------------------------------- configuration, constants
\* The engine under verification is constructed with
\* new LivenessSDK({ challengeTimeout: 600 }); the other options keep their
\* defaults.  A timeout of two settle delays keeps the clock small while a
\* challenge can still be passed, settled and timed out.
blinkEARThreshold == 25
headTurnThreshold == 40
challengeTimeout == 600
targetFPS == 30
OPEN_THRESHOLD == 30
SettleDelay == 300

\* amounts by which the clock advances between two tasks
TimeSteps == {SettleDelay}

\* The metrics of the frames fed to the engine (x100): calculateEAR of each eye
\* and calculateHeadTurnV2 of the landmarks.
Frame(l, r, y) == [leftEAR |-> l, rightEAR |-> r, yaw |-> y]
Frames == { Frame(35, 35, 0),      \* eyes open, facing the camera
            Frame(10, 10, 0),      \* eyes closed
            Frame(35, 10, -20),    \* one eye closed, head turned halfway to -T
            Frame(27, 27, 20),     \* between the closed and the open threshold,
                                   \* head turned halfway to +T
            Frame(35, 35, 50),     \* head turned past +T
            Frame(35, 35, -50),    \* head turned past -T
            Frame(35, 35, 40) }    \* head turned to exactly +T

VARIABLES
  loadState,              \* "none" | "loading" | "ready" | "failed"  (SDK.engine is null iff "none")
  isReady, isStopped, detectionLoopId, challenges, currentChallengeIndex,
  lastChallengeTime, isChallengeProcessing, hasDetectedOpenEyes, lastFrameTime,
  now,                    \* Date.now()
  rafCount,               \* animation-frame registrations of #detectionLoop still pending
  inFlight,               \* frames sent to the landmark collaborator and not yet finished,
                          \* each awaited by a suspended #detectionLoop invocation
  timers,                 \* due times of the pending setTimeout(#moveToNextChallenge, 300)
  extracting,             \* #completeLiveness invocations awaiting the descriptor data
  emitted,                \* events passed to _emit by the last task, in order
  starts,                 \* number of start() calls that began a session
  callerStopped,          \* the caller called stop() since the last start()
  challengeLog,           \* types of the challenge events since the last start()
  nSuccess,               \* success events since the last start()
  failures,               \* codes of the failure events since the last start()
  sawOpen,                \* a frame with EAR above the open threshold was delivered
                          \* to the active session since the current Blink challenge began
  passed,                 \* indices of the challenges a frame passed since the last start()
  lastOp,                 \* the kind of task that led to this state
  listeners,              \* LivenessSDK.listeners: event name -> handlers, in registration order
  invoked,                \* the handlers the last _emit called, in call order
  logged,                 \* console.error calls of the last _emit
  escaped,                \* an error left the last _emit towards its caller
  input, output,          \* the arguments and the result of the last call of a pure function
  srcObject,              \* videoElement.srcObject holds a stream
  acquiring,              \* start() calls awaiting getUserMedia, oldest first: for each,
                          \* the state load() was in when start() was called
  metadataWaiter,         \* the start() call whose onloadedmetadata handler is installed
                          \* ("none", or the state load() was in when it was called)
  lastSent,               \* Date.now() when #detectionLoop last called faceMesh.send
                          \* since the last start(), 0 if it has not (kept by SpecScheduler)
  lastFace,               \* Date.now() when the session last got a result with a face,
                          \* 0 if it has not (kept by SpecFace)
  startCalled             \* the caller called start() since its last stop()

engineVars == <<isReady, isStopped, detectionLoopId, challenges, currentChallengeIndex,
                lastChallengeTime, isChallengeProcessing, hasDetectedOpenEyes, lastFrameTime>>
sessionVars == <<challenges, currentChallengeIndex, lastChallengeTime,
                 isChallengeProcessing, hasDetectedOpenEyes>>
envVars == <<now, rafCount, inFlight, timers, extracting>>
ghostVars == <<starts, callerStopped, challengeLog, nSuccess, failures, sawOpen, passed>>
registryVars == <<listeners, invoked, logged, escaped>>
cameraVars == <<srcObject, acquiring, metadataWaiter, startCalled>>
watchVars == <<lastSent, lastFace>>
sideVars == <<registryVars, input, output, cameraVars, watchVars>>
mainVars == <<loadState, engineVars, envVars, emitted, ghostVars>>
vars == <<mainVars, lastOp, sideVars>>

\* ---------------------------------------------------------------- helpers
\* the keys of LivenessSDK.listeners
EventNames == {"ready", "challenge", "progress", "success", "failure", "error"}

\* an event handed to LivenessSDK._emit: arg is the challenge type or the failure
\* code; progress and raw are the progress (in percent) and the rawValue (x100)
\* of a progress event
Ev(t, a) == [type |-> t, arg |-> a, progress |-> 0, raw |-> 0]
Progress(progress, rawValue) ==
  [type |-> "progress", arg |-> "-", progress |-> progress, raw |-> rawValue]
Min(a, b) == IF a < b THEN a ELSE b
Max(a, b) == IF a > b THEN a ELSE b

EventTypes(evs) == {evs[i].type : i \in 1..Len(evs)}
ChallengeArgs(evs) == SelectSeq(evs, LAMBDA e : e.type = "challenge")
ArgsOf(evs) == [i \in 1..Len(evs) |-> evs[i].arg]

\* ghost bookkeeping of the events a task emitted
Record(evs) ==
  /\ emitted' = evs
  /\ challengeLog' = challengeLog \o ArgsOf(ChallengeArgs(evs))
  /\ nSuccess' = nSuccess + Len(SelectSeq(evs, LAMBDA e : e.type = "success"))
  /\ failures' = failures \cup {evs[i].arg : i \in {k \in 1..Len(evs) : evs[k].type = "failure"}}

\* ------------------------------------------------------ challenge sequencer
Swap(s, i, j) == [s EXCEPT ![i] = s[j], ![j] = s[i]]

\* pair: Math.random() > 0.5; j2, j1: Math.floor(Math.random() * (i + 1)) for i = 2, 1
DrawSpace == [pair : BOOLEAN, j2 : 0..2, j1 : 0..1]

\* the swap written without the destructuring temporary: a[i] = a[j]; a[j] = a[i]
generateChallengesLostSwap(d) ==
  LET base == IF d.pair THEN <<"BLINK", "TURN_LEFT", "TURN_RIGHT">>
                        ELSE <<"BLINK", "TURN_RIGHT", "TURN_LEFT">>
      s2 == [base EXCEPT ![3] = base[d.j2 + 1]]
  IN [s2 EXCEPT ![2] = s2[d.j1 + 1]]

\* the naive shuffle: every round draws its index from the whole list
generateChallengesNaive(d) ==
  LET base == IF d.pair THEN <<"BLINK", "TURN_LEFT", "TURN_RIGHT">>
                        ELSE <<"BLINK", "TURN_RIGHT", "TURN_LEFT">>
      s2 == Swap(base, 3, d.j2 + 1)
  IN Swap(s2, 2, ((d.j1 + d.j2) % 3) + 1)

generateChallenges(d) ==
  LET base == IF d.pair THEN <<"BLINK", "TURN_LEFT", "TURN_RIGHT">>
                        ELSE <<"BLINK", "TURN_RIGHT", "TURN_LEFT">>
      s2 == Swap(base, 3, d.j2 + 1)
  IN Swap(s2, 2, d.j1 + 1)


\* ------------------------------------------------------------ engine pieces
\* the stopped check left out
ResultNeverIgnored(stopped) == FALSE

\* #onFaceMeshResults, first line: a result is dropped when the engine is stopped
ResultIgnored(stopped) == stopped

\* the comparison written with >=, and against the wrong budget
TimedOutAtLimit(t, last) == t - last >= challengeTimeout
TimedOutLate(t, last) == t - last > challengeTimeout + SettleDelay

\* no timeout at all
TimedOutNever(t, last) == FALSE

\* Date.now() - #lastChallengeTime > challengeTimeout
TimedOut(t, last) == t - last > challengeTimeout

\* BLINK case of #processChallenge: the latch after this frame, and the pass test
BlinkLatch(latch, rawValue) == IF rawValue > OPEN_THRESHOLD THEN TRUE ELSE latch
BlinkPassedNoLatch(latch, rawValue) == rawValue < blinkEARThreshold
BlinkPassed(latch, rawValue) == latch /\ rawValue < blinkEARThreshold
TurnLeftPassed(turnRatio) == turnRatio > headTurnThreshold
TurnRightPassed(turnRatio) == turnRatio < -headTurnThreshold

\* the progress of a turn that has not passed, in percent:
\* Math.max(0, turnRatio / headTurnThreshold), Math.max(0, turnRatio / -headTurnThreshold)
TurnLeftProgress(turnRatio) == Max(0, (turnRatio * 100) \div headTurnThreshold)
TurnRightProgressSameSign(turnRatio) == Max(0, (turnRatio * 100) \div headTurnThreshold)
TurnRightProgress(turnRatio) == Max(0, ((-turnRatio) * 100) \div headTurnThreshold)

\* clampedProgress = Math.max(0, Math.min(progress, 1))
ClampProgress(progress) == Max(0, Min(progress, 100))

\* the active challenge, undefined once the index has left the sequence
CurrentChallenge == IF currentChallengeIndex < Len(challenges)
                    THEN challenges[currentChallengeIndex + 1] ELSE "undefined"

\* stop(): the assignments to #isStopped and #detectionLoopId and the cancellation
StopToggles(stopped) == ~stopped
StopStopped(stopped) == TRUE
StopLoopId(id) == "null"
StopRaf(id, raf) == IF id = "live" THEN raf - 1 ELSE raf

stop ==
  /\ isStopped' = StopStopped(isStopped)
  /\ detectionLoopId' = StopLoopId(detectionLoopId)
  /\ rafCount' = StopRaf(detectionLoopId, rafCount)

\* #failChallenge(error), after the events `before` of the same task
failChallenge(code, before) ==
  /\ stop
  /\ Record(before \o <<Ev("failure", code)>>)

\* send() not awaited: the next tick is registered by the tick that sends
detectionLoopNoAwait(stopped, ready, id, raf, lft) ==
  IF stopped \/ ~ready
  THEN /\ detectionLoopId' = IF stopped THEN id ELSE "live"
       /\ rafCount' = IF stopped THEN raf ELSE raf + 1
       /\ lastFrameTime' = lft
       /\ inFlight' = inFlight
  ELSE LET elapsed == targetFPS * now - lft
       IN /\ lastFrameTime' = IF elapsed > 1000 THEN targetFPS * now - (elapsed % 1000)
                              ELSE lft
          /\ inFlight' = IF elapsed > 1000 THEN inFlight + 1 ELSE inFlight
          /\ detectionLoopId' = "live"
          /\ rafCount' = raf + 1

\* the frame mark reset to the time of the tick, the remainder dropped
detectionLoopHardReset(stopped, ready, id, raf, lft) ==
  IF stopped \/ ~ready
  THEN /\ detectionLoopId' = IF stopped THEN id ELSE "live"
       /\ rafCount' = IF stopped THEN raf ELSE raf + 1
       /\ lastFrameTime' = lft
       /\ inFlight' = inFlight
  ELSE IF targetFPS * now - lft > 1000
       THEN /\ lastFrameTime' = targetFPS * now
            /\ inFlight' = inFlight + 1
            /\ detectionLoopId' = id
            /\ rafCount' = raf
       ELSE /\ lastFrameTime' = lft
            /\ inFlight' = inFlight
            /\ detectionLoopId' = "live"
            /\ rafCount' = raf + 1

\* #detectionLoop entered with registration state (id, raf) and #lastFrameTime lft.
\* lastFrameTime holds targetFPS times the JavaScript value, which keeps
\* fpsInterval = 1000 / targetFPS and the remainder exact.
detectionLoop(stopped, ready, id, raf, lft) ==
  IF stopped \/ ~ready
  THEN /\ detectionLoopId' = IF stopped THEN id ELSE "live"
       /\ rafCount' = IF stopped THEN raf ELSE raf + 1
       /\ lastFrameTime' = lft
       /\ inFlight' = inFlight
  ELSE LET elapsed == targetFPS * now - lft
       IN IF elapsed > 1000
          THEN /\ lastFrameTime' = targetFPS * now - (elapsed % 1000)
               /\ inFlight' = inFlight + 1          \* await faceMesh.send(...)
               /\ detectionLoopId' = id
               /\ rafCount' = raf
          ELSE /\ lastFrameTime' = lft
               /\ inFlight' = inFlight
               /\ detectionLoopId' = "live"
               /\ rafCount' = raf + 1

\* The #detectionLoop invocation that awaits send() resumes right after the
\* results listener returned and registers its next tick without looking at
\* #isStopped.  stopCalled: the listener ran stop() (through #failChallenge).
ResumeLoop(stopCalled) ==
  /\ detectionLoopId' = "live"
  /\ rafCount' = (IF stopCalled THEN StopRaf(detectionLoopId, rafCount) ELSE rafCount) + 1

\* the failure reported before the progress of the same frame
failChallengeInListenerFirst(code, before) ==
  /\ isStopped' = StopStopped(isStopped)
  /\ ResumeLoop(TRUE)
  /\ Record(<<Ev("failure", code)>> \o before)

\* #failChallenge(error) called by the results listener
failChallengeInListener(code, before) ==
  /\ isStopped' = StopStopped(isStopped)
  /\ ResumeLoop(TRUE)
  /\ Record(before \o <<Ev("failure", code)>>)

\* the re-entrancy flag never set
ProcessingOnPassUnset == FALSE

\* #processChallenge on a pass: this.#isChallengeProcessing = true
ProcessingOnPass == TRUE

\* the guard left out: every result with a face is evaluated
EvaluationNeverSuppressed(processing) == FALSE

\* #processChallenge, first line: if (this.#isChallengeProcessing) return
EvaluationSuppressed(processing) == processing

\* #processChallenge(landmarks); ear = min(leftEAR, rightEAR), yaw = calculateHeadTurnV2
processChallenge(ear, yaw) ==
  IF EvaluationSuppressed(isChallengeProcessing)
  THEN /\ Record(<<>>)
       /\ ResumeLoop(FALSE)
       /\ UNCHANGED <<isStopped, hasDetectedOpenEyes, isChallengeProcessing, timers>>
  ELSE LET cur == CurrentChallenge
           latch == IF cur = "BLINK" THEN BlinkLatch(hasDetectedOpenEyes, ear)
                    ELSE hasDetectedOpenEyes
           challengePassed ==
             CASE cur = "BLINK" -> BlinkPassed(latch, ear)
               [] cur = "TURN_LEFT" -> TurnLeftPassed(yaw)
               [] cur = "TURN_RIGHT" -> TurnRightPassed(yaw)
               [] OTHER -> FALSE
           rawValue == IF cur = "BLINK" THEN ear ELSE yaw
           progress ==
             CASE cur = "TURN_LEFT" ->
                    IF challengePassed THEN 100 ELSE TurnLeftProgress(yaw)
               [] cur = "TURN_RIGHT" ->
                    IF challengePassed THEN 100 ELSE TurnRightProgress(yaw)
               [] OTHER -> 0
           clampedProgress == ClampProgress(progress)
       IN /\ hasDetectedOpenEyes' = latch
          /\ IF challengePassed
             THEN /\ isChallengeProcessing' = ProcessingOnPass
                  /\ timers' = Append(timers, now + SettleDelay)
                  /\ Record(<<Progress(clampedProgress, rawValue)>>)
                  /\ ResumeLoop(FALSE)
                  /\ UNCHANGED isStopped
             ELSE IF TimedOut(now, lastChallengeTime)
             THEN /\ failChallengeInListener("CHALLENGE_TIMEOUT", <<Progress(clampedProgress, rawValue)>>)
                  /\ UNCHANGED <<isChallengeProcessing, timers>>
             ELSE /\ Record(<<Progress(clampedProgress, rawValue)>>)
                  /\ ResumeLoop(FALSE)
                  /\ UNCHANGED <<isStopped, isChallengeProcessing, timers>>

\* #onFaceMeshResults(results)
onFaceMeshResults(face, ear, yaw) ==
  IF ResultIgnored(isStopped)
  THEN /\ Record(<<>>)
       /\ ResumeLoop(FALSE)
       /\ UNCHANGED <<isStopped, hasDetectedOpenEyes, isChallengeProcessing, timers>>
  ELSE IF ~face
  THEN /\ hasDetectedOpenEyes' = FALSE
       /\ IF TimedOut(now, lastChallengeTime)
          THEN failChallengeInListener("FACE_NOT_FOUND", <<>>)
          ELSE Record(<<>>) /\ ResumeLoop(FALSE) /\ UNCHANGED isStopped
       /\ UNCHANGED <<isChallengeProcessing, timers>>
  ELSE processChallenge(ear, yaw)

\* #moveToNextChallenge: the increment of #currentChallengeIndex
NextIndex(i) == i + 1

\* #completeLiveness: stop(), the PROCESSING notification, then the embedding step.
\* syncFail: the synchronous part of the try block throws (predict, fromPixels),
\* which runs #failChallenge in the same task; otherwise the task ends at
\* await normalizedTensor.data().
completeLiveness(syncFail) ==
  IF syncFail
  THEN /\ isStopped' = StopStopped(StopStopped(isStopped))
       /\ detectionLoopId' = StopLoopId(StopLoopId(detectionLoopId))
       /\ rafCount' = StopRaf(StopLoopId(detectionLoopId), StopRaf(detectionLoopId, rafCount))
       /\ Record(<<Ev("challenge", "PROCESSING"), Ev("failure", "RECOGNITION_FAILED")>>)
       /\ extracting' = extracting
  ELSE /\ stop
       /\ Record(<<Ev("challenge", "PROCESSING")>>)
       /\ extracting' = extracting + 1

moveToNextChallenge(syncFail) ==
  /\ currentChallengeIndex' = NextIndex(currentChallengeIndex)
  /\ sawOpen' = FALSE
  /\ hasDetectedOpenEyes' = FALSE
  /\ IF currentChallengeIndex' >= Len(challenges)
     THEN /\ completeLiveness(syncFail)
          /\ UNCHANGED <<lastChallengeTime, isChallengeProcessing>>
     ELSE /\ lastChallengeTime' = now
          /\ Record(<<Ev("challenge", challenges[currentChallengeIndex' + 1])>>)
          /\ isChallengeProcessing' = FALSE
          /\ UNCHANGED <<isStopped, detectionLoopId, rafCount, extracting>>

\* the latch left as the session before left it
StartLatchKept(latch) == latch

\* start(): this.#hasDetectedOpenEyes = false
StartLatch(latch) == FALSE

\* LivenessEngine.start(videoElement, canvasCtx), #isReady holding.
\* ready: videoElement.readyState >= 2 at the synchronous first #detectionLoop call;
\* d: the outcomes of Math.random() in #generateChallenges.
engineStart(ready, d) ==
  /\ isStopped' = FALSE
  /\ isChallengeProcessing' = FALSE
  /\ currentChallengeIndex' = 0
  /\ lastChallengeTime' = now
  /\ hasDetectedOpenEyes' = StartLatch(hasDetectedOpenEyes)
  /\ challenges' = generateChallenges(d)
  /\ emitted' = <<Ev("challenge", challenges'[1])>>
  /\ challengeLog' = <<challenges'[1]>>
  /\ nSuccess' = 0
  /\ failures' = {}
  /\ callerStopped' = FALSE
  /\ sawOpen' = FALSE
  /\ passed' = {}
  /\ detectionLoop(FALSE, ready,
                   IF detectionLoopId = "live" THEN "stale" ELSE detectionLoopId,
                   StopRaf(detectionLoopId, rafCount), 0)

\* ---------------------------------------------------------------- actions
EngineConstructed ==
  /\ loadState = "none"
  /\ isReady = FALSE
  /\ isStopped = TRUE
  /\ detectionLoopId = "null"
  /\ challenges = <<>>
  /\ currentChallengeIndex = 0
  /\ lastChallengeTime = 0
  /\ isChallengeProcessing = FALSE
  /\ hasDetectedOpenEyes = FALSE
  /\ lastFrameTime = 0
  /\ now = Epoch
  /\ rafCount = 0
  /\ inFlight = 0
  /\ timers = <<>>
  /\ extracting = 0
  /\ emitted = <<>>
  /\ starts = 0
  /\ callerStopped = FALSE
  /\ challengeLog = <<>>
  /\ nSuccess = 0
  /\ failures = {}
  /\ sawOpen = FALSE
  /\ passed = {}
  /\ lastOp = "init"

\* LivenessSDK constructor: every event name starts with no handler
RegistryConstructed ==
  /\ listeners = [e \in EventNames |-> <<>>]
  /\ invoked = <<>>
  /\ logged = 0
  /\ escaped = FALSE

NoCall == input = <<>> /\ output = <<>>

\* the caller's video element before any start(): no stream attached
NoStream ==
  srcObject = FALSE /\ acquiring = <<>> /\ metadataWaiter = "none" /\ startCalled = FALSE

\* no frame was sent to the landmark collaborator yet
NoneSent == lastSent = 0

\* no result with a face was delivered yet
NoFaceSeen == lastFace = 0

Init == EngineConstructed /\ RegistryConstructed /\ NoCall /\ NoStream /\ NoneSent /\ NoFaceSeen

\* LivenessSDK.load(): creates the engine and starts loading the models; called
\* on a fresh SDK, or again after a failed load (the engine it replaces never
\* became ready, so its fields are still those of a new engine)
Load ==
  /\ lastOp' = "load"
  /\ UNCHANGED sideVars
  /\ loadState \in {"none", "failed"}
  /\ loadState' = "loading"
  /\ emitted' = <<>>
  /\ UNCHANGED <<engineVars, envVars, ghostVars>>

\* the promise returned by the last LivenessSDK.load(): resolve() is called by
\* the onReady callback only; reject() is called when the engine constructor
\* throws (it does not, given the four callbacks) or when engine.load() rejects
\* (it does not: its catch block turns every error into onFailure)
loadPromise ==
  CASE loadState = "none" -> "none"
    [] loadState = "loading" -> "pending"
    [] loadState = "ready" -> "resolved"
    [] loadState = "failed" -> "pending"

\* onReady called in a finally block instead of at the end of the try block
LoadEventsReadyAlways(ok) ==
  IF ok THEN <<Ev("ready", "-")>>
  ELSE <<Ev("failure", "MODEL_LOAD_FAILED"), Ev("ready", "-")>>

\* LivenessEngine.load(): the callback reached by the try block, or by the catch
LoadEvents(ok) ==
  IF ok THEN <<Ev("ready", "-")>> ELSE <<Ev("failure", "MODEL_LOAD_FAILED")>>

\* LivenessEngine.load() after await tf.loadGraphModel: onReady, or the catch block
LoadDone(ok) ==
  /\ lastOp' = "loadDone"
  /\ UNCHANGED sideVars
  /\ loadState = "loading"
  /\ loadState' = IF ok THEN "ready" ELSE "failed"
  /\ isReady' = ok
  /\ Record(LoadEvents(ok))
  /\ UNCHANGED <<isStopped, detectionLoopId, challenges, currentChallengeIndex,
                 lastChallengeTime, isChallengeProcessing, hasDetectedOpenEyes,
                 lastFrameTime, envVars, starts, callerStopped, sawOpen, passed>>

\* LivenessSDK.start, lines 109-122: with a stream attached the canvas is sized and
\* engine.start is called; the error it throws when the models are not loaded is
\* caught and emitted
StartSession(ready, d) ==
  IF ~isReady
  THEN /\ emitted' = <<Ev("error", "Error")>>
       /\ UNCHANGED <<loadState, engineVars, envVars, starts, callerStopped,
                      challengeLog, nSuccess, failures, sawOpen, passed>>
  ELSE /\ engineStart(ready, d)
       /\ starts' = starts + 1
       /\ UNCHANGED <<loadState, isReady, now, timers, extracting>>

\* LivenessSDK.start(videoElement, canvasElement) with a stream already attached
StartAttached(ready, d) ==
  /\ lastOp' = "start"
  /\ starts < MaxStarts
  /\ IF loadState = "none"
     THEN \* throw new Error("SDK not loaded. Call load() first.")
          /\ emitted' = <<>>
          /\ UNCHANGED <<loadState, engineVars, envVars, starts, callerStopped,
                         challengeLog, nSuccess, failures, sawOpen, passed>>
     ELSE StartSession(ready, d)

Start(ready, d) == StartAttached(ready, d) /\ UNCHANGED sideVars

\* LivenessSDK.stop(videoElement), lines 126-128: the engine is stopped if there is one
StopEngine ==
  /\ lastOp' = "stop"
  /\ emitted' = <<>>
  /\ callerStopped' = TRUE
  /\ IF loadState = "none"
     THEN UNCHANGED <<isStopped, detectionLoopId, rafCount>>
     ELSE stop
  /\ UNCHANGED <<loadState, isReady, challenges, currentChallengeIndex, lastChallengeTime,
                 isChallengeProcessing, hasDetectedOpenEyes, lastFrameTime,
                 now, inFlight, timers, extracting,
                 starts, challengeLog, nSuccess, failures, sawOpen, passed>>

\* LivenessSDK.stop() called without a video element
Stop == StopEngine /\ UNCHANGED sideVars

\* the timeout watched by the tick itself: an active session past its limit
\* fails when the tick fires, whether or not a frame was delivered
TickEngineTimesOut(ready, tracked) ==
  /\ lastOp' = "tick"
  /\ rafCount > 0
  /\ IF tracked THEN detectionLoopId = "live"
     ELSE rafCount > (IF detectionLoopId = "live" THEN 1 ELSE 0)
  /\ IF ~isStopped /\ now - lastChallengeTime > challengeTimeout
     THEN /\ isStopped' = TRUE
          /\ detectionLoopId' = "null"
          /\ rafCount' = StopRaf(IF tracked THEN "stale" ELSE detectionLoopId, rafCount - 1)
          /\ Record(<<Ev("failure", "CHALLENGE_TIMEOUT")>>)
          /\ UNCHANGED <<lastFrameTime, inFlight>>
     ELSE /\ detectionLoop(isStopped, ready,
                           IF tracked THEN "stale" ELSE detectionLoopId,
                           rafCount - 1, lastFrameTime)
          /\ emitted' = <<>>
          /\ UNCHANGED <<isStopped, challengeLog, nSuccess, failures>>
  /\ UNCHANGED <<loadState, isReady, challenges, currentChallengeIndex,
                 lastChallengeTime, isChallengeProcessing, hasDetectedOpenEyes,
                 now, timers, extracting, starts, callerStopped, sawOpen, passed>>

\* a pending animation-frame registration fires: #detectionLoop.
\* tracked: the registration #detectionLoopId refers to, or an older one.
TickEngine(ready, tracked) ==
  /\ lastOp' = "tick"
  /\ rafCount > 0
  /\ IF tracked THEN detectionLoopId = "live"
     ELSE rafCount > (IF detectionLoopId = "live" THEN 1 ELSE 0)
  /\ detectionLoop(isStopped, ready,
                   IF tracked THEN "stale" ELSE detectionLoopId,
                   rafCount - 1, lastFrameTime)
  /\ emitted' = <<>>
  /\ UNCHANGED <<loadState, isReady, isStopped, challenges, currentChallengeIndex,
                 lastChallengeTime, isChallengeProcessing, hasDetectedOpenEyes,
                 now, timers, extracting, ghostVars>>

Tick(ready, tracked) == TickEngine(ready, tracked) /\ UNCHANGED sideVars

\* The landmark collaborator finishes a sent frame: it calls the results listener
\* (#onFaceMeshResults) and then settles the promise of send(), so the suspended
\* #detectionLoop resumes within the same task and registers its next tick
\* (the statement after the await, which does not look at #isStopped).
ResultEngine(face, leftEAR, rightEAR, yaw) ==
  /\ lastOp' = "result"
  /\ inFlight > 0
  /\ inFlight' = inFlight - 1
  /\ onFaceMeshResults(face, Min(leftEAR, rightEAR), yaw)
  /\ sawOpen' = (sawOpen \/ (face /\ ~isStopped /\ CurrentChallenge = "BLINK"
                            /\ Min(leftEAR, rightEAR) > OPEN_THRESHOLD))
  /\ passed' = IF Len(timers') > Len(timers)
               THEN passed \cup {currentChallengeIndex} ELSE passed
  /\ UNCHANGED <<loadState, isReady, challenges, currentChallengeIndex, lastChallengeTime,
                 lastFrameTime, now, extracting, starts, callerStopped>>

Result(face, leftEAR, rightEAR, yaw) ==
  ResultEngine(face, leftEAR, rightEAR, yaw) /\ UNCHANGED sideVars

\* the oldest settle timer fires: () => this.#moveToNextChallenge()
TimerFire(syncFail) ==
  /\ lastOp' = "timer"
  /\ UNCHANGED sideVars
  /\ timers # <<>>
  /\ now >= Head(timers)
  /\ timers' = Tail(timers)
  /\ moveToNextChallenge(syncFail)
  /\ UNCHANGED <<loadState, isReady, challenges, lastFrameTime, now, inFlight,
                 starts, callerStopped, passed>>

\* await normalizedTensor.data() settles: onSuccess, or the catch block
EmbeddingDone(ok) ==
  /\ lastOp' = "embeddingDone"
  /\ UNCHANGED sideVars
  /\ extracting > 0
  /\ extracting' = extracting - 1
  /\ IF ok
     THEN /\ Record(<<Ev("success", "descriptor")>>)
          /\ UNCHANGED <<isStopped, detectionLoopId, rafCount>>
     ELSE failChallenge("RECOGNITION_FAILED", <<>>)
  /\ UNCHANGED <<loadState, isReady, challenges, currentChallengeIndex, lastChallengeTime,
                 isChallengeProcessing, hasDetectedOpenEyes, lastFrameTime,
                 now, inFlight, timers, starts, callerStopped, sawOpen, passed>>

\* time passes
AdvanceTime(d) ==
  /\ lastOp' = "time"
  /\ UNCHANGED sideVars
  /\ now + d <= MaxTime
  /\ now' = now + d
  /\ emitted' = <<>>
  /\ UNCHANGED <<loadState, engineVars, rafCount, inFlight, timers, extracting,
                 ghostVars>>

Next ==
  \/ Load
  \/ \E ok \in BOOLEAN : LoadDone(ok)
  \/ \E ready \in BOOLEAN, d \in DrawSpace : Start(ready, d)
  \/ Stop
  \/ \E ready \in BOOLEAN, tracked \in BOOLEAN : Tick(ready, tracked)
  \/ Result(FALSE, 0, 0, 0)
  \/ \E f \in Frames : Result(TRUE, f.leftEAR, f.rightEAR, f.yaw)
  \/ \E syncFail \in BOOLEAN : TimerFire(syncFail)
  \/ \E ok \in BOOLEAN : EmbeddingDone(ok)
  \/ \E d \in TimeSteps : AdvanceTime(d)

Spec == Init /\ [][Next]_vars

\* ------------------------------------------------------- listener registry
\* LivenessSDK.on / off / _emit (src/sdk/LivenessSDK.js), on their own: the
\* engine stays as constructed.
MaxListeners == 3     \* registrations held by the registry at one time

\* the callbacks the caller registers: one that returns, one that throws, and
\* one that unregisters itself (calls off with its own identity) and returns
Handlers == {"plain", "thrower", "once"}
Throws(cb) == cb = "thrower"
RemovesItself(cb) == cb = "once"

\* the names a caller may pass to on, off and _emit
CallNames == EventNames \cup {"unknown"}

Registrations == LET n[S \in SUBSET EventNames] ==
                       IF S = {} THEN 0
                       ELSE LET e == CHOOSE x \in S : TRUE
                            IN Len(listeners[e]) + n[S \ {e}]
                 IN n[EventNames]

\* this.listeners[event].filter((cb) => cb !== callback)
Without(cbs, callback) == SelectSeq(cbs, LAMBDA cb : cb # callback)

\* the try/catch left out: a thrown error leaves the forEach
PropagatesUncaught(threw) == threw

\* try { cb(payload) } catch (e) { console.error(...) }: no error passes the catch
Propagates(threw) == FALSE

\* this.listeners[event].forEach(...) over the array as it is when _emit is
\* entered: off called by a callback installs a filtered copy and leaves the
\* array under iteration as it is.
RECURSIVE forEachListener(_, _)
forEachListener(cbs, acc) ==
  IF cbs = <<>> \/ acc.escaped THEN acc
  ELSE LET cb == Head(cbs)
       IN forEachListener(Tail(cbs),
            [invoked |-> Append(acc.invoked, cb),
             logged  |-> IF Throws(cb) /\ ~Propagates(Throws(cb))
                         THEN acc.logged + 1 ELSE acc.logged,
             removed |-> IF RemovesItself(cb) THEN acc.removed \cup {cb} ELSE acc.removed,
             escaped |-> Propagates(Throws(cb))])

\* on(event, callback)
On(event, callback) ==
  /\ lastOp' = "on"
  /\ Registrations < MaxListeners
  /\ listeners' = IF event \in DOMAIN listeners
                  THEN [listeners EXCEPT ![event] = Append(@, callback)]
                  ELSE listeners
  /\ invoked' = <<>> /\ logged' = 0 /\ escaped' = FALSE
  /\ input' = <<>>
  /\ UNCHANGED <<mainVars, output, cameraVars, watchVars>>

\* off(event, callback)
Off(event, callback) ==
  /\ lastOp' = "off"
  /\ listeners' = IF event \in DOMAIN listeners
                  THEN [listeners EXCEPT ![event] = Without(@, callback)]
                  ELSE listeners
  /\ invoked' = <<>> /\ logged' = 0 /\ escaped' = FALSE
  /\ input' = <<>>
  /\ UNCHANGED <<mainVars, output, cameraVars, watchVars>>

\* _emit(event, payload)
Emit(event) ==
  /\ lastOp' = "emit"
  /\ LET start == [invoked |-> <<>>, logged |-> 0, removed |-> {}, escaped |-> FALSE]
         res == IF event \in DOMAIN listeners
                THEN forEachListener(listeners[event], start) ELSE start
     IN /\ invoked' = res.invoked
        /\ logged' = res.logged
        /\ escaped' = res.escaped
        /\ listeners' = IF event \in DOMAIN listeners
                        THEN [listeners EXCEPT
                                ![event] = SelectSeq(@, LAMBDA cb : cb \notin res.removed)]
                        ELSE listeners
  /\ input' = event
  /\ UNCHANGED <<mainVars, output, cameraVars, watchVars>>

NextRegistry ==
  \/ \E e \in CallNames, cb \in Handlers : On(e, cb)
  \/ \E e \in CallNames, cb \in Handlers : Off(e, cb)
  \/ \E e \in CallNames : Emit(e)

SpecRegistry == Init /\ [][NextRegistry]_vars

\* ------------------------------------------------------ camera acquisition
\* LivenessSDK.start and stop called with the caller's video element, whose
\* stream start() acquires when none is attached.  This specification follows
\* what start() does before, while and after a session is begun, with ticks and
\* landmark results in between; the clock stands still, so no settle timer
\* comes due (the course of a session is the subject of Spec).
MaxAcquiring == 1     \* start() calls waiting for getUserMedia at one time

\* the names of the errors getUserMedia rejects with
AcquireErrors == {"NotAllowedError", "NotFoundError", "NotReadableError"}

\* the catch block of start, lines 116-121: the test of error.name
IsDeniedOnlyNotFound(name) == name = "NotFoundError"
IsDenied(name) == name = "NotAllowedError" \/ name = "NotFoundError"

\* line 94: getUserMedia is called when the video element has no stream
NeedsStream(attached) == ~attached

\* LivenessSDK.start(videoElement, canvasElement) up to its first await
StartCall(ready, d) ==
  IF loadState = "none" \/ ~NeedsStream(srcObject)
  THEN /\ StartAttached(ready, d)
       /\ startCalled' = TRUE
       /\ UNCHANGED <<registryVars, watchVars, input, output,
                      srcObject, acquiring, metadataWaiter>>
  ELSE /\ lastOp' = "start"
       /\ Len(acquiring) < MaxAcquiring
       /\ acquiring' = Append(acquiring, loadState)
       /\ startCalled' = TRUE
       /\ emitted' = <<>>
       /\ UNCHANGED <<loadState, engineVars, envVars, ghostVars,
                      registryVars, watchVars, input, output, srcObject, metadataWaiter>>

\* getUserMedia resolves: the stream is attached and the call waits for
\* loadedmetadata, replacing the handler of a call that waited before it
CameraGranted ==
  /\ lastOp' = "granted"
  /\ acquiring # <<>>
  /\ acquiring' = Tail(acquiring)
  /\ srcObject' = TRUE
  /\ metadataWaiter' = Head(acquiring)
  /\ emitted' = <<>>
  /\ UNCHANGED <<loadState, engineVars, envVars, ghostVars, registryVars, watchVars,
                 input, output, startCalled>>

\* getUserMedia rejects: the catch block of start
CameraDenied(name) ==
  /\ lastOp' = "denied"
  /\ acquiring # <<>>
  /\ acquiring' = Tail(acquiring)
  /\ Record(<<Ev("error", name)>>
            \o (IF IsDenied(name) THEN <<Ev("failure", "CAMERA_ACCESS_DENIED")>> ELSE <<>>))
  /\ UNCHANGED <<loadState, engineVars, envVars, starts, callerStopped, sawOpen, passed,
                 registryVars, watchVars, input, output, srcObject, metadataWaiter,
                 startCalled>>

\* loadedmetadata fires: videoElement.play(), then start goes on at line 109
MetadataLoaded(ready, d) ==
  /\ lastOp' = "metadata"
  /\ metadataWaiter # "none"
  /\ srcObject
  /\ starts < MaxStarts
  /\ metadataWaiter' = "none"
  /\ StartSession(ready, d)
  /\ UNCHANGED <<registryVars, watchVars, input, output, srcObject, acquiring, startCalled>>

\* LivenessSDK.stop(videoElement): the engine is stopped, the tracks are stopped
\* and the stream is detached
StopVideo ==
  /\ StopEngine
  /\ srcObject' = FALSE
  /\ startCalled' = FALSE
  /\ UNCHANGED <<registryVars, watchVars, input, output, acquiring, metadataWaiter>>

NextCamera ==
  \/ Load
  \/ \E ok \in BOOLEAN : LoadDone(ok)
  \/ \E ready \in BOOLEAN, d \in DrawSpace : StartCall(ready, d)
  \/ CameraGranted
  \/ \E name \in AcquireErrors : CameraDenied(name)
  \/ \E ready \in BOOLEAN, d \in DrawSpace : MetadataLoaded(ready, d)
  \/ StopVideo
  \/ \E ready \in BOOLEAN, tracked \in BOOLEAN : Tick(ready, tracked)
  \/ Result(FALSE, 0, 0, 0)
  \/ \E f \in Frames : Result(TRUE, f.leftEAR, f.rightEAR, f.yaw)

SpecCamera == Init /\ [][NextCamera]_vars

\* ---------------------------------------------------- descriptor extraction
\* The try block of #completeLiveness on its own, applied to the raw embedding
\* the recognition model predicts.  The model's vectors have 2 components (the
\* engine's have 128); a component is a whole number of 1e-7, so 1e-6 is 10 and
\* 1.0 is Unit.
NORM_EPSILON == 10
Unit == 10000000

\* raw embeddings whose norm is a whole number: the zero vector, vectors below,
\* at and above the threshold of 1e-6, in every quadrant
RawEmbeddings ==
  { <<sx * m * a, sy * m * b>> :
      sx \in {1, -1}, sy \in {1, -1}, m \in {1, 2, 3, 10},
      a \in {0, 3, 4, 5, 12}, b \in {0, 3, 4, 5, 12} } \cap
  { v \in (-120..120) \X (-120..120) :
      \E n \in 0..170 : n * n = v[1] * v[1] + v[2] * v[2] }

\* predictionTensor.norm(): the Euclidean norm
SumOfSquares(v) == v[1] * v[1] + v[2] * v[2]
Norm(v) == CHOOSE n \in 0..170 : n * n <= SumOfSquares(v) /\ SumOfSquares(v) < (n + 1) * (n + 1)

\* predictionTensor.div(norm), component by component (round towards zero)
DivideBy(x, n) == IF x >= 0 THEN (x * Unit) \div n ELSE -(((-x) * Unit) \div n)

\* the normalization forgotten: the prediction is returned as it is
normalizedTensorRaw(v) == v

\* tf.tidy(() => norm.dataSync()[0] > 1e-6 ? predictionTensor.div(norm) : predictionTensor)
normalizedTensor(v) ==
  IF Norm(v) > NORM_EPSILON
  THEN <<DivideBy(v[1], Norm(v)), DivideBy(v[2], Norm(v))>>
  ELSE v

InitDescriptor ==
  /\ EngineConstructed /\ RegistryConstructed /\ NoStream /\ NoneSent /\ NoFaceSeen
  /\ input \in RawEmbeddings
  /\ output = <<>>

\* #completeLiveness from predict to the callback. throws: predict, data() or
\* a tensor operation raises an error.
ExtractDescriptor(throws) ==
  /\ lastOp = "init"
  /\ lastOp' = "completeLiveness"
  /\ output' = IF throws
               THEN [event |-> "failure", code |-> "RECOGNITION_FAILED", descriptor |-> <<>>]
               ELSE [event |-> "success", code |-> "-", descriptor |-> normalizedTensor(input)]
  /\ UNCHANGED <<mainVars, registryVars, cameraVars, watchVars, input>>

NextDescriptor == \E throws \in BOOLEAN : ExtractDescriptor(throws)

SpecDescriptor == InitDescriptor /\ [][NextDescriptor]_vars

\* ------------------------------------------------------- cosine similarity
\* calculateCosineSimilarity (src/engine/utils.js).  A component is a whole
\* number of fifths, so a unit vector has squared length 25 and a similarity of
\* 1.0 is 25.
Absent == [present |-> FALSE, elems |-> <<>>]
Vec(elems) == [present |-> TRUE, elems |-> elems]
Components == {-5, -4, -3, 0, 3, 4, 5}

\* null / undefined, every array of up to 2 components, and some of 3
VectorArgs ==
  {Absent} \cup {Vec(<<>>)} \cup {Vec(<<x>>) : x \in Components}
  \cup {Vec(<<x, y>>) : x \in Components, y \in Components}
  \cup {Vec(<<5, 0, 0>>), Vec(<<0, 5, 0>>), Vec(<<0, 0, -5>>), Vec(<<-5, 0, 0>>),
        Vec(<<3, 4, 0>>), Vec(<<0, -4, 3>>), Vec(<<-3, -4, 0>>), Vec(<<4, 4, 4>>)}

\* for (let i = from; i < vecA.length; i++) dotProduct += vecA[i] * vecB[i]
\* (i counts from 0 in the code and from 1 here)
RECURSIVE dotProductFrom(_, _, _, _)
dotProductFrom(a, b, i, dotProduct) ==
  IF i > Len(a) THEN dotProduct
  ELSE dotProductFrom(a, b, i + 1, dotProduct + a[i] * b[i])

Returned(value) == [threw |-> FALSE, value |-> value]
Thrown == [threw |-> TRUE, value |-> 0]

\* the test for absent arguments left out: reading .length of null throws
calculateCosineSimilarityNoGuard(vecA, vecB) ==
  IF ~vecA.present \/ ~vecB.present THEN Thrown
  ELSE IF Len(vecA.elems) # Len(vecB.elems) THEN Returned(0)
  ELSE Returned(dotProductFrom(vecA.elems, vecB.elems, 1, 0))

\* the loop started at the second component
calculateCosineSimilaritySkipFirst(vecA, vecB) ==
  IF ~vecA.present \/ ~vecB.present \/ Len(vecA.elems) # Len(vecB.elems)
  THEN Returned(0)
  ELSE Returned(dotProductFrom(vecA.elems, vecB.elems, 2, 0))

\* calculateCosineSimilarity(vecA, vecB)
calculateCosineSimilarity(vecA, vecB) ==
  IF ~vecA.present \/ ~vecB.present \/ Len(vecA.elems) # Len(vecB.elems)
  THEN Returned(0)
  ELSE Returned(dotProductFrom(vecA.elems, vecB.elems, 1, 0))

InitCosine ==
  /\ EngineConstructed /\ RegistryConstructed /\ NoStream /\ NoneSent /\ NoFaceSeen
  /\ input \in [vecA : VectorArgs, vecB : VectorArgs]
  /\ output = <<>>

CosineSimilarity ==
  /\ lastOp = "init"
  /\ lastOp' = "cosine"
  /\ output' = calculateCosineSimilarity(input.vecA, input.vecB)
  /\ UNCHANGED <<mainVars, registryVars, cameraVars, watchVars, input>>

NextCosine == CosineSimilarity

SpecCosine == InitCosine /\ [][NextCosine]_vars

\* ------------------------------------------------------------------ head yaw
\* calculateHeadTurnV2 (src/engine/utils.js).  Coordinates are whole numbers of
\* hundredths, so the face-width guard of 0.1 is 10.  The returned ratio is kept
\* as the fraction num / den, den being the face width (rounded down to a
\* hundredth); it is 0 exactly when num is 0.
Point(x, y, z) == [x |-> x, y |-> y, z |-> z]

\* landmarks 234 (left cheek), 454 (right cheek) and 152 (chin)
Landmarks ==
  [leftCheek  : {Point(0, 0, z) : z \in {-5, 0, 5}},
   rightCheek : {Point(x, y, z) : x \in {0, 6, 9, 10, 50}, y \in {0, 8}, z \in {-5, 0, 5}},
   chin       : {Point(x, 40, z) : x \in {0, 25}, z \in {-7, 0, 7}}]

\* Math.sqrt of a sum of squares, rounded down
Sqrt(s) == CHOOSE n \in 0..s : n * n <= s /\ s < (n + 1) * (n + 1)

euclideanDistance(p1, p2) ==
  Sqrt((p1.x - p2.x) * (p1.x - p2.x) + (p1.y - p2.y) * (p1.y - p2.y)
       + (p1.z - p2.z) * (p1.z - p2.z))

MIN_FACE_WIDTH == 10
Ratio(num, den) == [num |-> num, den |-> den]

\* calculateHeadTurnV2(landmarks)
calculateHeadTurnV2(landmarks) ==
  LET leftDepth == landmarks.leftCheek.z - landmarks.chin.z
      rightDepth == landmarks.rightCheek.z - landmarks.chin.z
      faceWidth == euclideanDistance(landmarks.leftCheek, landmarks.rightCheek)
  IN IF faceWidth < MIN_FACE_WIDTH THEN Ratio(0, 1)
     ELSE Ratio(rightDepth - leftDepth, faceWidth)

InitHeadTurn ==
  /\ EngineConstructed /\ RegistryConstructed /\ NoStream /\ NoneSent /\ NoFaceSeen
  /\ input \in Landmarks
  /\ output = <<>>

HeadTurn ==
  /\ lastOp = "init"
  /\ lastOp' = "headTurn"
  /\ output' = calculateHeadTurnV2(input)
  /\ UNCHANGED <<mainVars, registryVars, cameraVars, watchVars, input>>

NextHeadTurn == HeadTurn

SpecHeadTurn == InitHeadTurn /\ [][NextHeadTurn]_vars

\* ------------------------------------------------- head yaw, as computed
\* calculateHeadTurnV2 with the rounding of JavaScript numbers: every
\* subtraction, square, sum and square root returns the floating-point number
\* nearest to the exact result (ties to the even significand).  A significand
\* has Precision bits here (53 in a double); values are whole numbers of
\* hundredths, which every number of at most Precision bits represents exactly.
Precision == 4        \* bits of a significand
MaxExponent == 8      \* floats reach (2^Precision - 1) * 2^MaxExponent

RECURSIVE Pow2(_)
Pow2(n) == IF n = 0 THEN 1 ELSE 2 * Pow2(n - 1)

Abs(x) == IF x < 0 THEN -x ELSE x

\* the non-negative floating-point numbers
Floats ==
  (0..(Pow2(Precision) - 1))
  \cup {m * Pow2(e) : m \in Pow2(Precision - 1)..(Pow2(Precision) - 1), e \in 1..MaxExponent}

\* the significand of a float is even
EvenSignificand(f) ==
  IF f < Pow2(Precision) THEN f % 2 = 0
  ELSE \E e \in 1..MaxExponent :
         /\ f % Pow2(e) = 0
         /\ f \div Pow2(e) \in Pow2(Precision - 1)..(Pow2(Precision) - 1)
         /\ (f \div Pow2(e)) % 2 = 0

\* the float nearest to x
RoundNearest(x) ==
  LET a == Abs(x)
      below == CHOOSE f \in Floats : f <= a /\ \A g \in Floats : g <= a => g <= f
      above == CHOOSE f \in Floats : f >= a /\ \A g \in Floats : g >= a => g >= f
      r == IF a - below < above - a THEN below
           ELSE IF a - below > above - a THEN above
           ELSE IF EvenSignificand(below) THEN below ELSE above
  IN IF x < 0 THEN -r ELSE r

\* Math.sqrt(s): the float nearest to the square root
SqrtNearest(s) ==
  LET below == CHOOSE f \in Floats : f * f <= s /\ \A g \in Floats : g * g <= s => g <= f
      above == CHOOSE f \in Floats : f > below /\ \A g \in Floats : g > below => g >= f
  IN IF 4 * s > (below + above) * (below + above) THEN above ELSE below

\* euclideanDistance(p1, p2) in floating point
euclideanDistanceRounded(p1, p2) ==
  LET dx == RoundNearest(p1.x - p2.x)
      dy == RoundNearest(p1.y - p2.y)
      dz == RoundNearest(p1.z - p2.z)
  IN SqrtNearest(RoundNearest(RoundNearest(RoundNearest(dx * dx) + RoundNearest(dy * dy))
                              + RoundNearest(dz * dz)))

\* calculateHeadTurnV2(landmarks) in floating point; the quotient is kept as the
\* fraction of its two operands
calculateHeadTurnV2Rounded(landmarks) ==
  LET leftDepth == RoundNearest(landmarks.leftCheek.z - landmarks.chin.z)
      rightDepth == RoundNearest(landmarks.rightCheek.z - landmarks.chin.z)
      faceWidth == euclideanDistanceRounded(landmarks.leftCheek, landmarks.rightCheek)
  IN IF faceWidth < MIN_FACE_WIDTH THEN Ratio(0, 1)
     ELSE Ratio(RoundNearest(rightDepth - leftDepth), faceWidth)

\* the quotient num / den, rounded to the nearest float, is greater than 1: the
\* exact quotient lies above the midpoint of 1 and the float after it
QuotientAboveOne(num, den) ==
  num * Pow2(Precision) > den * (Pow2(Precision) + 1)

\* landmarks whose coordinates are floats: the cheeks at one depth or up to
\* 0.15 apart in depth, side by side or in line with the camera
RoundedLandmarks ==
  [leftCheek  : {Point(0, 0, z) : z \in {0, 4}},
   rightCheek : {Point(x, 0, z) : x \in {0, 3, 12}, z \in {0, 11, 13, 15}},
   chin       : {Point(6, 40, z) : z \in {-20, -9, 0, 7, 18}}]

InitRounded ==
  /\ EngineConstructed /\ RegistryConstructed /\ NoStream /\ NoneSent /\ NoFaceSeen
  /\ input \in RoundedLandmarks
  /\ output = <<>>

HeadTurnRounded ==
  /\ lastOp = "init"
  /\ lastOp' = "headTurnRounded"
  /\ output' = calculateHeadTurnV2Rounded(input)
  /\ UNCHANGED <<mainVars, registryVars, cameraVars, watchVars, input>>

NextRounded == HeadTurnRounded

SpecRounded == InitRounded /\ [][NextRounded]_vars

\* ------------------------------------------- evaluation under other options
\* The switch of #processChallenge and the clamp that follows it, for an engine
\* constructed with thresholds of the caller's choice (config is merged over
\* DEFAULT_CONFIG and not validated).  The options and the challenge under
\* evaluation are the input; frames are evaluated against that challenge, the
\* latch starting cleared as start() and #moveToNextChallenge leave it, until a
\* frame passes.
MaxFrames == 3        \* frames evaluated against the challenge

\* the thresholds the caller configures (x100)
Configs == [blinkEARThreshold : {20, 25, 30, 35}, headTurnThreshold : {-20, 0, 20, 40}]

SwitchFrames == {Frame(e, e, y) : e \in {10, 27, 32, 35},
                                  y \in {-50, -40, -20, 0, 20, 40, 50}}

\* a JavaScript number holding a progress: a finite value in percent, NaN, or
\* an infinity (percent is then its sign)
Number(p) == [kind |-> "number", percent |-> p]
NaN == [kind |-> "NaN", percent |-> 0]
PlusInfinity == [kind |-> "Infinity", percent |-> 1]
MinusInfinity == [kind |-> "Infinity", percent |-> -1]

\* a / b in percent, rounded towards zero; minusZero: a zero divisor is -0
Divide(a, b, minusZero) ==
  IF b = 0
  THEN IF a = 0 THEN NaN
       ELSE IF (a > 0) # minusZero THEN PlusInfinity ELSE MinusInfinity
  ELSE LET q == ((IF a < 0 THEN -a ELSE a) * 100) \div (IF b < 0 THEN -b ELSE b)
       IN Number(IF (a < 0) = (b < 0) THEN q ELSE -q)

\* Math.max(p, q) and Math.min(q, p) for a finite p
MathMax(p, q) ==
  CASE q.kind = "NaN" -> NaN
    [] q.kind = "Infinity" -> IF q.percent > 0 THEN q ELSE Number(p)
    [] OTHER -> Number(Max(p, q.percent))
MathMin(q, p) ==
  CASE q.kind = "NaN" -> NaN
    [] q.kind = "Infinity" -> IF q.percent > 0 THEN Number(p) ELSE q
    [] OTHER -> Number(Min(q.percent, p))

\* the comparisons written with >= and <=
TurnLeftPassedWithOrEqual(T, turnRatio) == turnRatio >= T
TurnRightPassedWithOrEqual(T, turnRatio) == turnRatio <= -T

\* the pass tests of the three cases under the configured thresholds
BlinkPassedWith(closedThreshold, latch, rawValue) == latch /\ rawValue < closedThreshold
TurnLeftPassedWith(T, turnRatio) == turnRatio > T
TurnRightPassedWith(T, turnRatio) == turnRatio < -T

\* the switch of #processChallenge and the clamp, for the frame f
processChallengeWith(config, currentChallenge, latch, f) ==
  LET T == config.headTurnThreshold
      r == CASE currentChallenge = "BLINK" ->
                  LET rawValue == Min(f.leftEAR, f.rightEAR)
                      open == BlinkLatch(latch, rawValue)
                  IN [latch |-> open, rawValue |-> rawValue,
                      challengePassed |->
                        BlinkPassedWith(config.blinkEARThreshold, open, rawValue),
                      progress |-> Number(0)]
             [] currentChallenge = "TURN_LEFT" ->
                  [latch |-> latch, rawValue |-> f.yaw,
                   challengePassed |-> TurnLeftPassedWith(T, f.yaw),
                   progress |-> IF TurnLeftPassedWith(T, f.yaw) THEN Number(100)
                                ELSE MathMax(0, Divide(f.yaw, T, FALSE))]
             [] currentChallenge = "TURN_RIGHT" ->
                  [latch |-> latch, rawValue |-> f.yaw,
                   challengePassed |-> TurnRightPassedWith(T, f.yaw),
                   progress |-> IF TurnRightPassedWith(T, f.yaw) THEN Number(100)
                                ELSE MathMax(0, Divide(f.yaw, -T, TRUE))]
  IN [r EXCEPT !.progress = MathMax(0, MathMin(@, 100))]

InitSwitch ==
  /\ EngineConstructed /\ RegistryConstructed /\ NoStream /\ NoneSent /\ NoFaceSeen
  /\ input \in [config : Configs, challenge : {"BLINK", "TURN_LEFT", "TURN_RIGHT"}]
  /\ output = <<>>

\* a result with a face reaches #processChallenge while the challenge is awaited
EvaluateFrame(f) ==
  /\ lastOp \in {"init", "evaluate"}
  /\ lastOp = "evaluate" => (~output.challengePassed /\ output.frames < MaxFrames)
  /\ lastOp' = "evaluate"
  /\ LET r == processChallengeWith(input.config, input.challenge, hasDetectedOpenEyes, f)
     IN /\ hasDetectedOpenEyes' = r.latch
        /\ output' = [frames |-> IF lastOp = "init" THEN 1 ELSE output.frames + 1,
                      frame |-> f,
                      rawValue |-> r.rawValue,
                      challengePassed |-> r.challengePassed,
                      clampedProgress |-> r.progress]
  /\ UNCHANGED <<loadState, isReady, isStopped, detectionLoopId, challenges,
                 currentChallengeIndex, lastChallengeTime, isChallengeProcessing,
                 lastFrameTime, envVars, emitted, ghostVars,
                 registryVars, cameraVars, watchVars, input>>

NextSwitch == \E f \in SwitchFrames : EvaluateFrame(f)

SpecSwitch == InitSwitch /\ [][NextSwitch]_vars

\* --------------------------------------------------------- frame scheduling
\* The engine with animation frames a few milliseconds apart, over the first
\* 80 ms of its sessions: no settle timer comes due and no
\* challenge times out (the course of a session is the subject of Spec), what
\* is followed is when #detectionLoop sends a frame.
MaxSendTime == 1080   \* the clock stops advancing here

\* the time between two tasks: animation frames are not evenly spaced
FrameSteps == {20, 25}

\* the time of this task if it sent a frame, otherwise before
SentAt(before) == IF inFlight' > inFlight THEN now ELSE before

SchedulerStart(ready, d) ==
  /\ StartAttached(ready, d)
  /\ lastSent' = (IF isReady THEN SentAt(0) ELSE lastSent)
  /\ UNCHANGED <<registryVars, input, output, cameraVars, lastFace>>

SchedulerTick(ready, tracked) ==
  /\ TickEngine(ready, tracked)
  /\ lastSent' = SentAt(lastSent)
  /\ UNCHANGED <<registryVars, input, output, cameraVars, lastFace>>

\* a few milliseconds pass
ShortWait(d) ==
  /\ lastOp' = "wait"
  /\ now + d <= MaxSendTime
  /\ now' = now + d
  /\ emitted' = <<>>
  /\ UNCHANGED <<loadState, engineVars, rafCount, inFlight, timers, extracting,
                 ghostVars, sideVars>>

NextScheduler ==
  \/ Load
  \/ \E ok \in BOOLEAN : LoadDone(ok)
  \/ \E ready \in BOOLEAN, d \in DrawSpace : SchedulerStart(ready, d)
  \/ \E ready \in BOOLEAN, tracked \in BOOLEAN : SchedulerTick(ready, tracked)
  \/ Result(FALSE, 0, 0, 0)
  \/ \E f \in Frames : Result(TRUE, f.leftEAR, f.rightEAR, f.yaw)
  \/ \E d \in FrameSteps : ShortWait(d)

SpecScheduler == Init /\ [][NextScheduler]_vars

\* ------------------------------------------------------- face presence
\* The engine in sessions the caller lets run, with the time of the last
\* landmark result that showed a face to the running session.
FaceAt(face, before) == IF face /\ ~isStopped THEN now ELSE before

FaceStart(ready, d) ==
  /\ StartAttached(ready, d)
  /\ lastFace' = (IF isReady THEN 0 ELSE lastFace)
  /\ UNCHANGED <<registryVars, input, output, cameraVars, lastSent>>

FaceResultDelivered(face, leftEAR, rightEAR, yaw) ==
  /\ ResultEngine(face, leftEAR, rightEAR, yaw)
  /\ lastFace' = FaceAt(face, lastFace)
  /\ UNCHANGED <<registryVars, input, output, cameraVars, lastSent>>

NextFace ==
  \/ Load
  \/ \E ok \in BOOLEAN : LoadDone(ok)
  \/ \E ready \in BOOLEAN, d \in DrawSpace : FaceStart(ready, d)
  \/ \E ready \in BOOLEAN, tracked \in BOOLEAN : Tick(ready, tracked)
  \/ FaceResultDelivered(FALSE, 0, 0, 0)
  \/ \E f \in Frames : FaceResultDelivered(TRUE, f.leftEAR, f.rightEAR, f.yaw)
  \/ \E syncFail \in BOOLEAN : TimerFire(syncFail)
  \/ \E ok \in BOOLEAN : EmbeddingDone(ok)
  \/ \E d \in TimeSteps : AdvanceTime(d)

SpecFace == Init /\ [][NextFace]_vars

\* ------------------------------------------------------ sessions that end
\* The engine under the scheduling the browser and the collaborators provide:
\* time passes, animation frames fire with the video ready, every frame sent
\* yields a landmark result, a due timer fires and the embedding data arrive.
\* So that time can pass for ever in a finite model, the clock reading stays
\* where it is and the recorded times grow older instead: the engine reads them
\* only as differences to Date.now().  A time older than every span the engine
\* measures stops ageing.
Aged(t, d, oldest) == IF t <= oldest THEN t ELSE Max(t - d, oldest)

Elapse(d) ==
  /\ lastOp' = "time"
  /\ emitted' = <<>>
  /\ lastChallengeTime' = Aged(lastChallengeTime, d, now - challengeTimeout - SettleDelay)
  /\ timers' = [i \in 1..Len(timers) |-> Aged(timers[i], d, now)]
  /\ lastFrameTime' = Aged(lastFrameTime, targetFPS * d, 0)
  /\ UNCHANGED <<loadState, isReady, isStopped, detectionLoopId, challenges,
                 currentChallengeIndex, isChallengeProcessing, hasDetectedOpenEyes,
                 now, rafCount, inFlight, extracting, ghostVars, sideVars>>

ReadyTick == \E tracked \in BOOLEAN : Tick(TRUE, tracked)
AnyResult ==
  \/ Result(FALSE, 0, 0, 0)
  \/ \E f \in Frames : Result(TRUE, f.leftEAR, f.rightEAR, f.yaw)
AnyTimerFire == \E syncFail \in BOOLEAN : TimerFire(syncFail)
AnyEmbeddingDone == \E ok \in BOOLEAN : EmbeddingDone(ok)
TimePasses == \E d \in TimeSteps : Elapse(d)

NextLive ==
  \/ Load
  \/ \E ok \in BOOLEAN : LoadDone(ok)
  \/ \E ready \in BOOLEAN, d \in DrawSpace : Start(ready, d)
  \/ Stop
  \/ \E ready \in BOOLEAN, tracked \in BOOLEAN : Tick(ready, tracked)
  \/ AnyResult
  \/ AnyTimerFire
  \/ AnyEmbeddingDone
  \/ TimePasses

Fairness ==
  /\ WF_vars(TimePasses)
  /\ WF_vars(ReadyTick)
  /\ WF_vars(AnyResult)
  /\ WF_vars(AnyTimerFire)
  /\ WF_vars(AnyEmbeddingDone)

SpecLive == Init /\ [][NextLive]_vars /\ Fairness

\* ================================================================= claims
SessionEvents == {"challenge", "progress", "success", "failure"}
NoSessionEvent(evs) == EventTypes(evs) \cap SessionEvents = {}

\* exactly one session was started and the caller never stopped it
SingleSession == starts = 1 /\ ~callerStopped /\ challenges # <<>>

C2_TerminalIsFinal ==
  [][ ((nSuccess > 0 \/ failures # {}) /\ starts > 0 /\ lastOp' # "start")
      => NoSessionEvent(emitted') ]_vars

\* C3: stop() emits no event in any state (before load, before start,
\* mid-session, after a terminal event), and a stop() that directly follows a
\* stop() changes nothing.
C3_StopIdempotent ==
  [][ lastOp' = "stop"
      => /\ emitted' = <<>>
         /\ lastOp = "stop" => UNCHANGED <<loadState, engineVars, envVars, ghostVars>> ]_vars

\* stop() acted in the middle of a session with a settle timer and a frame pending
C3_Witness ==
  /\ lastOp = "stop"
  /\ isStopped
  /\ currentChallengeIndex = 1
  /\ timers # <<>>
  /\ inFlight > 0

\* C4: a landmark result delivered after the caller's stop() and before the next
\* start() changes no session state and emits no event.
C4_LateResultIgnored ==
  [][ (lastOp' = "result" /\ callerStopped)
      => (UNCHANGED sessionVars /\ UNCHANGED isStopped /\ emitted' = <<>>) ]_vars

\* a result was delivered to a session the caller stopped while it was settling
C4_Witness ==
  /\ lastOp = "result"
  /\ callerStopped
  /\ isChallengeProcessing
  /\ starts > 0
  /\ emitted = <<>>

\* a landmark result without a face, and one with a face, is delivered
NoFaceResult == Result(FALSE, 0, 0, 0)
FaceResult == \E f \in Frames : Result(TRUE, f.leftEAR, f.rightEAR, f.yaw)

\* the task evaluated a frame and detected a pass: it scheduled the settle timer
PassDetected == lastOp' = "result" /\ Len(timers') = Len(timers) + 1

\* C5: in an active session a result without a face delivered more than
\* challengeTimeout ms after the current challenge began emits failure
\* FACE_NOT_FOUND (and nothing else) and stops the session; one delivered
\* earlier emits nothing and leaves the session active.
C5_FaceNotFound ==
  [][ (NoFaceResult /\ ~isStopped)
      => IF now - lastChallengeTime > challengeTimeout
         THEN emitted' = <<Ev("failure", "FACE_NOT_FOUND")>> /\ isStopped'
         ELSE emitted' = <<>> /\ ~isStopped' ]_vars

\* a session still at its first challenge failed on a result without a face
C5_Witness ==
  /\ lastOp = "result"
  /\ emitted = <<Ev("failure", "FACE_NOT_FOUND")>>
  /\ isStopped
  /\ currentChallengeIndex = 0
  /\ ~isChallengeProcessing
  /\ challengeLog = <<challenges[1]>>
  /\ now - lastChallengeTime > challengeTimeout

\* C6: in an active session a result with a face that is evaluated, does not
\* pass, and comes more than challengeTimeout ms after the current challenge
\* began emits its progress event, then failure CHALLENGE_TIMEOUT, and stops
\* the session; one evaluated earlier emits only its progress event.
C6_ChallengeTimeout ==
  [][ (FaceResult /\ ~isStopped /\ ~isChallengeProcessing /\ ~PassDetected)
      => /\ Len(emitted') >= 1
         /\ emitted'[1].type = "progress"
         /\ IF now - lastChallengeTime > challengeTimeout
            THEN /\ Len(emitted') = 2
                 /\ emitted'[2] = Ev("failure", "CHALLENGE_TIMEOUT")
                 /\ isStopped'
            ELSE Len(emitted') = 1 /\ ~isStopped' ]_vars

C6_Witness ==
  /\ lastOp = "result"
  /\ Len(emitted) = 2
  /\ emitted[2] = Ev("failure", "CHALLENGE_TIMEOUT")
  /\ isStopped
  /\ currentChallengeIndex = 0
  /\ failures = {"CHALLENGE_TIMEOUT"}
  /\ now - lastChallengeTime > challengeTimeout

\* C7: with the default thresholds a Blink challenge passes on a frame only if
\* an earlier frame of the same challenge had EAR above 0.3 and this frame's
\* EAR is below 0.25; and a closed frame that directly follows an evaluated
\* open frame of a Blink challenge of an active session passes.
C7_BlinkOpenThenClosed ==
  [][ /\ (PassDetected /\ CurrentChallenge = "BLINK")
         => (sawOpen /\ emitted'[1].raw < 25)
      /\ ( /\ lastOp = "result" /\ ~isStopped /\ CurrentChallenge = "BLINK"
           /\ Len(emitted) = 1 /\ emitted[1].type = "progress" /\ emitted[1].raw > 30
           /\ \E f \in Frames : /\ Min(f.leftEAR, f.rightEAR) < 25
                                /\ Result(TRUE, f.leftEAR, f.rightEAR, f.yaw) )
         => (PassDetected /\ isChallengeProcessing') ]_vars

\* a Blink challenge was just passed by a closed frame
C7_Witness ==
  /\ lastOp = "result"
  /\ CurrentChallenge = "BLINK"
  /\ isChallengeProcessing
  /\ sawOpen
  /\ emitted = <<Progress(0, 10)>>
  /\ timers # <<>>

\* the 6 orderings of the three challenges
Orderings == { p \in [1..3 -> {"BLINK", "TURN_LEFT", "TURN_RIGHT"}] :
                 \A i, j \in 1..3 : i # j => p[i] # p[j] }
Occurrences(seq, c) == Cardinality({i \in 1..Len(seq) : seq[i] = c})

\* C8: every generated sequence has length 3 and contains each of BLINK,
\* TURN_LEFT and TURN_RIGHT exactly once, and each of the 6 orderings is the
\* outcome of some combination of random draws.
C8_SequenceIsPermutation ==
  /\ challenges # <<>> =>
       /\ Len(challenges) = 3
       /\ \A c \in {"BLINK", "TURN_LEFT", "TURN_RIGHT"} : Occurrences(challenges, c) = 1
  /\ lastOp = "start" =>
       \A p \in Orderings : \E d \in DrawSpace : generateChallenges(d) = p

C8_Witness ==
  /\ lastOp = "start"
  /\ challenges = <<"TURN_RIGHT", "BLINK", "TURN_LEFT">>

\* C9: each of the 6 orderings is produced by the same number (2) of the 12
\* equally likely combinations of the pairing choice and the two index draws.
C9_Uniform ==
  /\ lastOp = "start" =>
       /\ Cardinality(DrawSpace) = 12
       /\ \A p \in Orderings :
            Cardinality({d \in DrawSpace : generateChallenges(d) = p}) = 2
  /\ challenges # <<>> =>
       Cardinality({d \in DrawSpace : generateChallenges(d) = challenges}) = 2

C9_Witness ==
  /\ lastOp = "start"
  /\ challenges = <<"TURN_LEFT", "TURN_RIGHT", "BLINK">>
  /\ Cardinality({d \in DrawSpace : generateChallenges(d) = challenges}) = 2

\* C10: the current challenge index is always between 0 and the sequence
\* length 3, and between two start() calls it never decreases.
C10_IndexInRange ==
  /\ [](currentChallengeIndex \in 0..3)
  /\ [][lastOp' # "start" => currentChallengeIndex' >= currentChallengeIndex]_vars

\* C11: _emit(e) calls every handler registered for e, once per registration
\* and in registration order, also after a handler that threw; no error leaves
\* _emit; a handler registered only for other event names is not called.
C11_EmitIsolatesHandlers ==
  [][ lastOp' = "emit"
      => /\ invoked' = (IF input' \in EventNames THEN listeners[input'] ELSE <<>>)
         /\ ~escaped'
         /\ logged' = Cardinality({i \in 1..Len(invoked') : invoked'[i] = "thrower"}) ]_vars

\* an emit reached a handler registered after one that threw and was logged,
\* while another event name had a handler of its own
C11_Witness ==
  /\ lastOp = "emit"
  /\ input = "failure"
  /\ invoked = <<"thrower", "plain">>
  /\ logged = 1
  /\ listeners["success"] = <<"once">>

\* C12: a load() call that completes emits exactly one event: ready when the
\* models loaded, failure MODEL_LOAD_FAILED when loading raised an error; ready
\* and MODEL_LOAD_FAILED are emitted by no other step.
C12_LoadEmitsOne ==
  [][ /\ lastOp' = "loadDone"
         => /\ loadState = "loading"
            /\ IF loadState' = "ready"
               THEN emitted' = <<Ev("ready", "-")>>
               ELSE loadState' = "failed" /\ emitted' = <<Ev("failure", "MODEL_LOAD_FAILED")>>
      /\ (\E i \in 1..Len(emitted') :
             emitted'[i] \in {Ev("ready", "-"), Ev("failure", "MODEL_LOAD_FAILED")})
         => lastOp' = "loadDone" ]_vars

\* a load() call failed
C12_Witness ==
  /\ lastOp = "loadDone"
  /\ loadState = "failed"
  /\ ~isReady
  /\ emitted = <<Ev("failure", "MODEL_LOAD_FAILED")>>

\* C13: a start() call made while load() was never called, is still pending or
\* has failed emits no challenge event, forwards no frame to the landmark
\* collaborator and leaves the engine stopped, whether it reaches the engine at
\* once (stream attached) or after the camera was acquired.
C13_StartRequiresLoad ==
  [][ ( \/ lastOp' = "start" /\ loadState # "ready"
        \/ lastOp' = "metadata" /\ metadataWaiter # "ready" )
      => /\ \A i \in 1..Len(emitted') : emitted'[i].type # "challenge"
         /\ inFlight' = inFlight
         /\ isStopped' ]_vars

\* C14: when getUserMedia rejects with NotAllowedError, start() emits the error
\* and then failure CAMERA_ACCESS_DENIED, emits no challenge event and changes
\* nothing of the engine or of a session; and a start() call waits for the
\* camera only if the video element had no stream attached.
C14_CameraDenied ==
  [][ /\ (lastOp' = "denied" /\ emitted'[1] = Ev("error", "NotAllowedError"))
         => /\ emitted' = <<Ev("error", "NotAllowedError"),
                            Ev("failure", "CAMERA_ACCESS_DENIED")>>
            /\ UNCHANGED <<loadState, engineVars, now, rafCount, inFlight, timers,
                           extracting, starts, srcObject>>
      /\ Len(acquiring') > Len(acquiring) => (lastOp' = "start" /\ ~srcObject) ]_vars

\* the camera was denied to a start() call made after a session that the caller
\* had stopped, releasing the stream
C14_Witness ==
  /\ lastOp = "denied"
  /\ emitted = <<Ev("error", "NotAllowedError"), Ev("failure", "CAMERA_ACCESS_DENIED")>>
  /\ starts = 1
  /\ callerStopped
  /\ isStopped
  /\ ~srcObject

\* C15: between two start() calls the embedding step emits at most one
\* terminal event, success or failure RECOGNITION_FAILED, never both; and either
\* is emitted only after a frame passed each of the three challenges of the
\* session's sequence.
C15_EmbeddingTerminal ==
  [][ (\E i \in 1..Len(emitted') :
          emitted'[i] \in {Ev("success", "descriptor"), Ev("failure", "RECOGNITION_FAILED")})
      => /\ nSuccess = 0
         /\ "RECOGNITION_FAILED" \notin failures
         /\ passed = {0, 1, 2} ]_vars

\* C16: when extraction raises no error the embedding step ends with success,
\* whatever the norm of the raw embedding; below 1e-6 the descriptor is the raw
\* embedding, above 1e-6 it is the raw embedding divided by its norm (each
\* component times the norm gives back the raw component, to the last digit
\* kept).
C16_NearZeroNorm ==
  (lastOp = "completeLiveness" /\ output.code # "RECOGNITION_FAILED")
  => /\ output.event = "success"
     /\ input[1] * input[1] + input[2] * input[2] < 10 * 10
          => output.descriptor = input
     /\ input[1] * input[1] + input[2] * input[2] > 10 * 10
          => \E n \in 11..170 :
               /\ n * n = input[1] * input[1] + input[2] * input[2]
               /\ \A i \in 1..2 :
                    output.descriptor[i] * n - input[i] * 10000000 \in (-n)..n

\* a raw embedding of norm 5e-7 was emitted unchanged
C16_Witness ==
  /\ lastOp = "completeLiveness"
  /\ input = <<-3, 4>>
  /\ output = [event |-> "success", code |-> "-", descriptor |-> <<-3, 4>>]

\* the i-th product of the two argument vectors (0 past their end)
ProductAt(i) ==
  IF i <= Len(input.vecA.elems) THEN input.vecA.elems[i] * input.vecB.elems[i] ELSE 0

\* C17: CosineSimilarity raises no error; it returns 0 when an argument is
\* absent or the lengths differ, and otherwise the sum of the products of the
\* components, not divided by the magnitudes.
C17_CosinePermissive ==
  lastOp = "cosine"
  => /\ ~output.threw
     /\ IF ~input.vecA.present \/ ~input.vecB.present
           \/ Len(input.vecA.elems) # Len(input.vecB.elems)
        THEN output.value = 0
        ELSE output.value = ProductAt(1) + ProductAt(2) + ProductAt(3)

\* vectors of different lengths gave 0
C17_Witness ==
  /\ lastOp = "cosine"
  /\ input = [vecA |-> Vec(<<5>>), vecB |-> Vec(<<3, 4>>)]
  /\ output = Returned(0)

\* a present vector of squared length 25 (length 1.0)
SquareAt(v, i) == IF i <= Len(v.elems) THEN v.elems[i] * v.elems[i] ELSE 0
IsUnit(v) ==
  /\ v.present
  /\ Len(v.elems) \in 1..3
  /\ SquareAt(v, 1) + SquareAt(v, 2) + SquareAt(v, 3) = 25
Negated(v) == [i \in 1..Len(v.elems) |-> -v.elems[i]]

\* the second vector is the first turned by a quarter turn in the plane, or the
\* two are unit vectors along different axes
QuarterTurn(a, b) ==
  \/ /\ Len(a.elems) = 2 /\ Len(b.elems) = 2
     /\ \/ b.elems = <<-a.elems[2], a.elems[1]>>
        \/ b.elems = <<a.elems[2], -a.elems[1]>>
  \/ /\ Len(a.elems) = 3 /\ Len(b.elems) = 3
     /\ \E i, j \in 1..3 :
          /\ i # j
          /\ a.elems[i] * a.elems[i] = 25
          /\ b.elems[j] * b.elems[j] = 25

C19_ChinIndependent ==
  lastOp = "headTurnRounded"
  => \A z \in {-20, -9, 0, 7, 18} :
       calculateHeadTurnV2Rounded([input EXCEPT !.chin = Point(6, 40, z)]) = output

C21_StartResets ==
  [][ (lastOp' = "start" /\ isReady)
      => /\ currentChallengeIndex' = 0
         /\ ~isChallengeProcessing'
         /\ ~hasDetectedOpenEyes'
         /\ ~isStopped'
         /\ lastChallengeTime' = now'
         /\ challenges' \in Orderings
         /\ emitted' = <<Ev("challenge", challenges'[1])>>
         /\ challengeLog' = <<challenges'[1]>> ]_vars

\* a second start() was called while the first session was settling a passed
\* challenge, its settle timer not yet due
C21_Witness ==
  /\ lastOp = "start"
  /\ starts = 2
  /\ timers # <<>>
  /\ now < timers[1]
  /\ currentChallengeIndex = 0
  /\ ~isChallengeProcessing
  /\ ~hasDetectedOpenEyes
  /\ emitted = <<Ev("challenge", challenges[1])>>

\* C22: while a passed challenge is settling (the re-entrancy flag is set; in
\* a session started once and not stopped, as long as its settle timer is
\* pending) a result with a face is not evaluated: it emits nothing, changes no
\* session state and schedules no advance.  So in such a session at most one
\* settle timer is pending and the index is the number of challenges passed
\* less the advance still pending.
C22_SettlingSuppressesEvaluation ==
  /\ [][ (FaceResult /\ ~isStopped
          /\ (isChallengeProcessing \/ (SingleSession /\ timers # <<>>)))
         => /\ emitted' = <<>>
            /\ timers' = timers
            /\ UNCHANGED <<sessionVars, isStopped>> ]_vars
  /\ [](SingleSession
        => /\ Len(timers) <= 1
           /\ timers # <<>> => isChallengeProcessing
           /\ currentChallengeIndex + Len(timers) = Cardinality(passed))

\* a result with a face was delivered while the passed Blink challenge of an
\* uninterrupted session was settling (a result without a face would have
\* cleared the latch)
C22_Witness ==
  /\ lastOp = "result"
  /\ SingleSession
  /\ CurrentChallenge = "BLINK"
  /\ isChallengeProcessing
  /\ hasDetectedOpenEyes
  /\ timers # <<>>
  /\ emitted = <<>>
  /\ passed = {currentChallengeIndex}

\* the progress events among the events of a task
ProgressEvents(evs) == SelectSeq(evs, LAMBDA e : e.type = "progress")

\* C23: every result with a face that is evaluated (active session, no
\* challenge settling) emits exactly one progress event, and emits it first:
\* on a frame that passes it is the only event, on a frame that times out it is
\* followed by the failure CHALLENGE_TIMEOUT, and no other event is emitted.
C23_ProgressOnEveryFrame ==
  [][ (FaceResult /\ ~isStopped /\ ~isChallengeProcessing)
      => /\ Len(ProgressEvents(emitted')) = 1
         /\ Head(emitted').type = "progress"
         /\ PassDetected => Len(emitted') = 1
         /\ isStopped' <=> (~PassDetected /\ now - lastChallengeTime > challengeTimeout)
         /\ IF isStopped'
            THEN Tail(emitted') = <<Ev("failure", "CHALLENGE_TIMEOUT")>>
            ELSE Tail(emitted') = <<>> ]_vars

\* the second challenge of a session, TurnLeft, timed out on a frame that
\* reported half progress
C23_Witness ==
  /\ lastOp = "result"
  /\ currentChallengeIndex = 1
  /\ CurrentChallenge = "TURN_LEFT"
  /\ isStopped
  /\ emitted = <<Progress(50, 20), Ev("failure", "CHALLENGE_TIMEOUT")>>

C25_BlinkNeedsTwoFrames ==
  (lastOp = "evaluate" /\ input.challenge = "BLINK" /\ output.challengePassed)
  => /\ output.frames >= 2
     /\ output.rawValue < input.config.blinkEARThreshold

\* a tick sent a frame to the landmark collaborator
TickSent == lastOp' = "tick" /\ inFlight' = inFlight + 1

\* C26 (as stated): a tick forwards a frame only when at least one interval
\* 1000 / targetFPS has elapsed since the session's last forwarded frame.
C26_IntervalSinceLastFrame ==
  [][ (TickSent /\ lastSent # 0) => targetFPS * (now - lastSent) >= 1000 ]_vars

\* C26 (amended): a tick forwards a frame only when more than one interval has
\* elapsed since the frame mark #lastFrameTime; the mark then moves forward by
\* a whole number of intervals, to less than one interval before the time of
\* the tick.  The mark is never later than the last forwarded frame and less
\* than one interval before it.
C26_IntervalSinceFrameMark ==
  /\ [][ TickSent
         => /\ targetFPS * now - lastFrameTime > 1000
            /\ lastFrameTime' - lastFrameTime >= 1000
            /\ (lastFrameTime' - lastFrameTime) % 1000 = 0
            /\ targetFPS * now - lastFrameTime' \in 0..999 ]_vars
  /\ [](lastSent # 0 => targetFPS * lastSent - lastFrameTime \in 0..999)

\* a tick forwarded a frame at 1070 ms and left the mark a tenth of an
\* interval before it
C26_Witness ==
  /\ lastOp = "tick"
  /\ starts = 1
  /\ lastSent = now
  /\ now = Epoch + 70
  /\ lastFrameTime = targetFPS * now - 100
  /\ inFlight = 1

C28_StopCancelsTick ==
  /\ [](rafCount <= 1)
  /\ []((callerStopped /\ loadState # "none") => rafCount = 0)
  /\ [][ (callerStopped /\ lastOp' # "start") => inFlight' <= inFlight ]_vars

\* the failures reported when a challenge is out of time
TimeoutFailures == {Ev("failure", "FACE_NOT_FOUND"), Ev("failure", "CHALLENGE_TIMEOUT")}

\* C29: a FACE_NOT_FOUND or CHALLENGE_TIMEOUT failure is emitted only by the
\* task that processes a delivered landmark result, of an active session past
\* its limit; a tick and the passing of time emit nothing, so a session that
\* is delivered no result emits no timeout failure however late it is.
C29_TimeoutsAreCooperative ==
  /\ [][ (\E i \in 1..Len(emitted') : emitted'[i] \in TimeoutFailures)
         => /\ lastOp' = "result"
            /\ inFlight' = inFlight - 1
            /\ ~isStopped
            /\ now - lastChallengeTime > challengeTimeout ]_vars
  /\ [][ lastOp' \in {"tick", "time"} => (emitted' = <<>> /\ failures' = failures) ]_vars

\* a session whose video was never ready is still active, without a failure,
\* 900 ms or more after its challenge began: no frame was sent, only ticks ran
C29_Witness ==
  /\ lastOp = "tick"
  /\ starts = 1
  /\ ~isStopped
  /\ lastFrameTime = 0
  /\ inFlight = 0
  /\ failures = {}
  /\ currentChallengeIndex = 0
  /\ now - lastChallengeTime >= challengeTimeout + SettleDelay

\* the handlers of a list other than h, in order
OthersThan(cbs, h) == SelectSeq(cbs, LAMBDA cb : cb # h)

\* C30: off(e, h) called on the list that on(e, h) leaves (a list of e ending
\* with h) gives back the list the on was called with, also when that list held
\* h already; off(e, h) keeps the other handlers of e in their order and leaves
\* every other event as it is; on and off with an unknown event name change
\* nothing.
C30_OnOffRoundTrip ==
  [][ \A e \in CallNames, h \in Handlers :
        /\ (Off(e, h) /\ e \in EventNames)
           => /\ OthersThan(listeners'[e], h) = OthersThan(listeners[e], h)
              /\ \A other \in EventNames \ {e} : listeners'[other] = listeners[other]
              /\ (listeners[e] # <<>> /\ listeners[e][Len(listeners[e])] = h)
                 => listeners'[e] = SubSeq(listeners[e], 1, Len(listeners[e]) - 1)
        /\ ((On(e, h) \/ Off(e, h)) /\ e \notin EventNames)
           => listeners' = listeners ]_vars

\* C31: the challenge index advances only after a frame of the current session
\* passed the challenge it leaves, so a settle timer left by an earlier session
\* neither advances nor completes a later one.
C31_AdvanceNeedsOwnPass ==
  [][ currentChallengeIndex' > currentChallengeIndex
      => (lastOp' = "timer" /\ currentChallengeIndex \in passed) ]_vars

\* C32: no challenge is passed by a frame evaluated more than challengeTimeout
\* ms after the challenge began: such a frame, whatever its metric, emits
\* failure CHALLENGE_TIMEOUT and stops the session.
C32_NoLatePass ==
  [][ (FaceResult /\ ~isStopped /\ ~isChallengeProcessing
       /\ now - lastChallengeTime > challengeTimeout)
      => /\ ~PassDetected
         /\ isStopped'
         /\ Ev("failure", "CHALLENGE_TIMEOUT") \in {emitted'[i] : i \in 1..Len(emitted')} ]_vars

\* C34: after the caller's stop() and until the next start() no challenge,
\* progress, success or failure event is emitted and the challenge index keeps
\* its value, whichever callback of the session runs (the outcome of a pending
\* load() is left aside).
C34_QuiescentAfterStop ==
  [][ (callerStopped /\ lastOp' \notin {"start", "loadDone"})
      => /\ NoSessionEvent(emitted')
         /\ currentChallengeIndex' = currentChallengeIndex ]_vars

\* C38: a Blink challenge is passed only by a frame that follows an open frame
\* (EAR > 0.3) of the same challenge: when the passing frame is evaluated the
\* eyes-open latch is already set.
C38_BlinkFollowsOpenFrame ==
  [][ (lastOp' = "evaluate" /\ input.challenge = "BLINK" /\ output'.challengePassed)
      => hasDetectedOpenEyes ]_vars

\* C37: for every landmark input the yaw ratio computed by calculateHeadTurnV2
\* is at most 1 in absolute value, so that under a headTurnThreshold of 1 it
\* passes neither TurnLeft (ratio > 1) nor TurnRight (ratio < -1).
C37_YawRatioWithinOne ==
  lastOp = "headTurnRounded"
  => /\ Abs(output.num) <= output.den
     /\ ~QuotientAboveOne(output.num, output.den)
     /\ ~QuotientAboveOne(-output.num, output.den)

\* C36: when the initialization started by load() ends, the promise load()
\* returned is settled: resolved if the ready event was emitted, rejected if
\* the initialization failed.
C36_LoadPromiseSettles ==
  [][ lastOp' = "loadDone"
      => IF Ev("ready", "-") \in {emitted'[i] : i \in 1..Len(emitted')}
         THEN loadPromise' = "resolved"
         ELSE loadPromise' = "rejected" ]_vars

\* C35: once the caller has called stop(), and until it calls start() again,
\* no challenge event is emitted and no frame is forwarded to the landmark
\* collaborator, also when a start() called before the stop() was still waiting
\* for the camera.
C35_StopCancelsPendingStart ==
  [][ (~startCalled /\ lastOp' # "start")
      => /\ "challenge" \notin EventTypes(emitted')
         /\ inFlight' <= inFlight ]_vars

\* C33: when failure FACE_NOT_FOUND is emitted, the session has been shown no
\* face for longer than challengeTimeout: no landmark result delivered to it in
\* the challengeTimeout ms before the failure contained a face.
C33_NoFaceForWholeTimeout ==
  [][ Ev("failure", "FACE_NOT_FOUND") \in {emitted'[i] : i \in 1..Len(emitted')}
      => (lastFace = 0 \/ now - lastFace >= challengeTimeout) ]_vars

\* C39: under fair scheduling every session that was started and has emitted
\* neither success nor failure emits one of them later, unless the caller
\* stops it.
C39_SessionEnds ==
  (starts > 0 /\ ~callerStopped /\ nSuccess = 0 /\ failures = {})
    ~> (nSuccess > 0 \/ failures # {} \/ callerStopped)

\* a session nobody stopped has ended because its challenge timed out
C39_Witness ==
  /\ lastOp = "result"
  /\ starts = 1 /\ ~callerStopped
  /\ failures = {"CHALLENGE_TIMEOUT"}
  /\ now - lastChallengeTime > challengeTimeout

====
